---------------------------- MODULE Spec2Model ----------------------------
(***************************************************************************)
(* Model of packages/markdown/src/node/parser/utils.ts:                    *)
(*   resolveHeadersFromTokens, resolveTitleFromToken, slugify and          *)
(*   preventViteConstantsReplacement.                                      *)
(*                                                                         *)
(* A JavaScript string is a sequence of code points (naturals): "h2" is    *)
(* <<104, 50>>.  Regular expressions are modelled by what they match:      *)
(* character classes are sets of code points, a global replace is a  *)
(* left-to-right scan.                                                     *)
(***************************************************************************)
EXTENDS Integers, Sequences, FiniteSets, TLC

VARIABLES
    pc,          \* position of the function under execution
    str,         \* slugify: the argument
    slug,        \* slugify: the string as it passes through the chain
    token,       \* resolveTitleFromToken: the token argument
    title,       \* resolveTitleFromToken: the returned string
    allowHtml,   \* option allowHtml
    escapeText,  \* option escapeText
    source,      \* preventViteConstantsReplacement: the argument `source`
    define,      \* preventViteConstantsReplacement: the argument `define`
    cur,         \* the local `source` as the replaces rewrite it
    prev,        \* the string the last replace was applied to
    matched,     \* the matches [pos, len] the last replace found in prev
    tokens,      \* resolveHeadersFromTokens: the argument `tokens`
    level,       \* option level (the levels to extract)
    format,      \* option format
    idx,         \* forEach index (1-based)
    nodes,       \* the MarkdownHeader objects created so far (the heap)
    headers,     \* the local `headers`: references into nodes
    stack        \* the local `stack`: references into nodes

vars == <<pc, str, slug, token, title, allowHtml, escapeText, source, define,
          cur, prev, matched, tokens, level, format, idx, nodes, headers, stack>>

slugVars == <<str, slug>>
titleVars == <<token, title>>
optVars == <<allowHtml, escapeText>>
guardVars == <<source, define, cur, prev, matched>>
headerVars == <<tokens, level, format, idx, nodes, headers, stack>>

-----------------------------------------------------------------------------
(* Bounds of the checked inputs.                                           *)

MaxSlugLen == 3
MaxChildren == 3
MaxFrags == 3
MaxTokens == 4

-----------------------------------------------------------------------------
(* Strings.                                                                *)

RECURSIVE Concat(_)
Concat(ss) == IF ss = <<>> THEN <<>> ELSE Head(ss) \o Concat(Tail(ss))

\* All sequences over S of length 0..n.
RECURSIVE SeqsUpTo(_, _)
SeqsUpTo(S, n) ==
    IF n = 0 THEN {<<>>}
    ELSE LET shorter == SeqsUpTo(S, n - 1)
         IN  shorter \cup {Append(s, x) : s \in {t \in shorter : Len(t) = n - 1}, x \in S}

\* s.slice(i) with a 0-based i.
Slice(s, i) == SubSeq(s, i + 1, Len(s))

\* Does t occur in s starting at the 1-based position i?
OccursAt(s, i, t) ==
    /\ i + Len(t) - 1 <= Len(s)
    /\ SubSeq(s, i, i + Len(t) - 1) = t

\* \d
IsDigit(c) == c \in 48..57

\* \w : [A-Za-z0-9_]
IsWordChar(c) == c \in 65..90 \/ c \in 97..122 \/ IsDigit(c) \/ c = 95

\* \s, which is also what String.prototype.trim removes.
WhiteSpace ==
    (9..13) \cup {32, 160, 5760, 8232, 8233, 8239, 8287, 12288, 65279}
            \cup (8192..8202)

IsWhiteSpace(c) == c \in WhiteSpace

\* String.prototype.trim
RECURSIVE TrimStart(_)
TrimStart(s) ==
    IF s # <<>> /\ IsWhiteSpace(Head(s)) THEN TrimStart(Tail(s)) ELSE s

RECURSIVE TrimEnd(_)
TrimEnd(s) ==
    IF s # <<>> /\ IsWhiteSpace(s[Len(s)]) THEN TrimEnd(SubSeq(s, 1, Len(s) - 1)) ELSE s

Trim(s) == TrimEnd(TrimStart(s))

\* s.replace(/[class]/g, '') : drop every character of the class.
RECURSIVE RemoveAll(_, _)
RemoveAll(s, class) ==
    IF s = <<>> THEN <<>>
    ELSE IF Head(s) \in class THEN RemoveAll(Tail(s), class)
    ELSE <<Head(s)>> \o RemoveAll(Tail(s), class)

\* s.replace(/[class]{min,}/g, '-') : every maximal run of at least min
\* characters of the class becomes one hyphen.
RECURSIVE RunLength(_, _)
RunLength(s, class) ==
    IF s # <<>> /\ Head(s) \in class THEN 1 + RunLength(Tail(s), class) ELSE 0

RECURSIVE ReplaceRuns(_, _, _)
ReplaceRuns(s, class, min) ==
    IF s = <<>> THEN <<>>
    ELSE LET n == RunLength(s, class)
         IN  IF n >= min /\ n > 0
             THEN <<45>> \o ReplaceRuns(SubSeq(s, n + 1, Len(s)), class, min)
             ELSE IF n > 0
             THEN SubSeq(s, 1, n) \o ReplaceRuns(SubSeq(s, n + 1, Len(s)), class, min)
             ELSE <<Head(s)>> \o ReplaceRuns(Tail(s), class, min)

-----------------------------------------------------------------------------
(* slugify                                                                 *)

\* const rControl = /[\u0000-\u001f]/g
rControl == 0..31

\* A mutant of rSpecial: the dashes U+2013 and U+2014 count as special too.
rSpecialWithDashes ==
    WhiteSpace \cup
             {126, 96, 33, 64, 35, 36, 37, 94, 38, 42, 40, 41, 45, 95, 43, 61,
              91, 93, 123, 125, 124, 92, 59, 58, 34, 39, 8220, 8221, 8216,
              8217, 60, 62, 44, 46, 63, 47, 8211, 8212}

\* const rSpecial = /[\s~`!@#$%^&*()\-_+=[\]{}|\\;:"'<curly quotes><>,.?/]+/g
rSpecial ==
    WhiteSpace \cup
             {126, 96, 33, 64, 35, 36, 37, 94, 38, 42, 40, 41, 45, 95, 43, 61,
              91, 93, 123, 125, 124, 92, 59, 58, 34, 39, 8220, 8221, 8216,
              8217, 60, 62, 44, 46, 63, 47}

\* const rCombining = /[\u0300-\u036F]/g
rCombining == 768..879

Hyphen == {45}

\* str.normalize('NFKD') on the characters the checked inputs are made of:
\* e-acute and a-grave decompose into the letter and a combining mark, the
\* no-break space into a space; ASCII, U+0301 and U+2014 have no
\* decomposition.
NFKDChar(c) ==
    CASE c = 233 -> <<101, 769>>
      [] c = 224 -> <<97, 768>>
      [] c = 160 -> <<32>>
      [] OTHER -> <<c>>

Normalize(s) == Concat([i \in 1..Len(s) |-> NFKDChar(s[i])])

\* .replace(rCombining, '')
RemoveAccents(s) == RemoveAll(s, rCombining)

\* .replace(rControl, '')
RemoveControl(s) == RemoveAll(s, rControl)

\* .replace(rSpecial, '-')
ReplaceSpecial(s) == ReplaceRuns(s, rSpecial, 1)

\* .replace(/-{2,}/g, '-')
RemoveContinuous(s) == ReplaceRuns(s, Hyphen, 2)

\* .replace(/^-+|-+$/g, '')
RECURSIVE DropLeadingHyphens(_)
DropLeadingHyphens(s) ==
    IF s # <<>> /\ Head(s) = 45 THEN DropLeadingHyphens(Tail(s)) ELSE s

RECURSIVE DropTrailingHyphens(_)
DropTrailingHyphens(s) ==
    IF s # <<>> /\ s[Len(s)] = 45
    THEN DropTrailingHyphens(SubSeq(s, 1, Len(s) - 1)) ELSE s

RemoveEdgeSeparators(s) == DropTrailingHyphens(DropLeadingHyphens(s))

\* .replace(/^(\d)/, '_$1')
PrefixNumber(s) == IF s # <<>> /\ IsDigit(Head(s)) THEN <<95>> \o s ELSE s

\* .toLowerCase() on ASCII and Latin-1 letters; the other characters of the
\* checked inputs have no lower-case mapping.
LowerChar(c) ==
    IF c \in 65..90 \/ (c \in 192..222 /\ c # 215) THEN c + 32 ELSE c

ToLowerCase(s) == [i \in 1..Len(s) |-> LowerChar(s[i])]

slugify(s) ==
    ToLowerCase(PrefixNumber(RemoveEdgeSeparators(RemoveContinuous(
        ReplaceSpecial(RemoveControl(RemoveAccents(Normalize(s))))))))

-----------------------------------------------------------------------------
(* Nullable values: {} is null / undefined, {v} is the value v.            *)

Null == {}
Some(v) == {v}

\* x ?? d
Coalesce(x, d) == IF x = Null THEN d ELSE CHOOSE v \in x : TRUE

-----------------------------------------------------------------------------
(* resolveTitleFromToken                                                   *)

\* htmlEscape of @vitebook/core/node: & < > " become entities.
htmlEscapeChar(c) ==
    CASE c = 38 -> <<38, 97, 109, 112, 59>>
      [] c = 60 -> <<38, 108, 116, 59>>
      [] c = 62 -> <<38, 103, 116, 59>>
      [] c = 34 -> <<38, 113, 117, 111, 116, 59>>
      [] OTHER -> <<c>>

htmlEscape(s) == Concat([i \in 1..Len(s) |-> htmlEscapeChar(s[i])])

\* item.meta?.isPermalinkSymbol
IsPermalinkSymbol(item) ==
    item.meta # Null /\ (CHOOSE m \in item.meta : TRUE).isPermalinkSymbol

\* const titleTokenTypes = ['text', 'emoji', 'code_inline'], plus
\* 'html_inline' if allowHtml.
titleTokenTypes(html) ==
    {"text", "emoji", "code_inline"} \cup (IF html THEN {"html_inline"} ELSE {})

\* children.filter(...)
titleTokens(children, html) ==
    SelectSeq(children,
              LAMBDA item : item.type \in titleTokenTypes(html)
                            /\ ~IsPermalinkSymbol(item))

\* A mutant of TitleReducer: with escapeText every included child is escaped.
TitleReducerEscapeAll(result, item, escape) ==
    IF escape THEN result \o htmlEscape(item.content) ELSE result \o item.content

\* The reduce callback.
TitleReducer(result, item, escape) ==
    IF escape /\ item.type \in {"code_inline", "text"}
    THEN result \o htmlEscape(item.content)
    ELSE result \o item.content

RECURSIVE Reduce(_, _, _)
Reduce(items, result, escape) ==
    IF items = <<>> THEN result
    ELSE Reduce(Tail(items), TitleReducer(result, Head(items), escape), escape)

resolveTitleFromToken(tok, html, escape) ==
    LET children == Coalesce(tok.children, <<>>)
    IN  Trim(Reduce(titleTokens(children, html), <<>>, escape))

-----------------------------------------------------------------------------
(* preventViteConstantsReplacement                                         *)

\* '<wbr/>'
Marker == <<60, 119, 98, 114, 47, 62>>

\* `${undefined}`
UndefinedText == <<117, 110, 100, 101, 102, 105, 110, 101, 100>>

\* A compiled pattern is a sequence of atoms: a literal character or `.`.
Lit(c) == [kind |-> "char", c |-> c]
AnyChar == [kind |-> "any", c |-> 0]

\* How a regex source without groups and quantifiers compiles: `\c` is the
\* literal c, a bare `.` is any character but a line terminator, any other
\* character is itself.
RECURSIVE Compile(_)
Compile(src) ==
    IF src = <<>> THEN <<>>
    ELSE IF Head(src) = 92 /\ Len(src) >= 2
         THEN <<Lit(src[2])>> \o Compile(SubSeq(src, 3, Len(src)))
    ELSE IF Head(src) = 46 THEN <<AnyChar>> \o Compile(Tail(src))
    ELSE <<Lit(Head(src))>> \o Compile(Tail(src))

AtomMatches(a, c) ==
    IF a.kind = "any" THEN c \notin {10, 13, 8232, 8233} ELSE c = a.c

\* Does the compiled alternative alt match s at position i?
AltMatchesAt(s, i, alt) ==
    /\ i + Len(alt) - 1 <= Len(s)
    /\ \A j \in 1..Len(alt) : AtomMatches(alt[j], s[i + j - 1])

\* \b at position i: between s[i-1] and s[i].
WordBoundary(s, i) ==
    LET left == i > 1 /\ IsWordChar(s[i - 1])
        right == i <= Len(s) /\ IsWordChar(s[i])
    IN  left # right

\* The length /\b(alt1|alt2|...)/ matches at position i (the first
\* alternative that matches wins), or -1.
MatchLenAt(s, i, alts) ==
    LET ok == {k \in 1..Len(alts) : AltMatchesAt(s, i, alts[k])}
    IN  IF ~WordBoundary(s, i) \/ ok = {} THEN -1
        ELSE Len(alts[CHOOSE k \in ok : \A m \in ok : k <= m])

\* The matches of a global regex in s from position i on, left to right:
\* after a match the scan resumes behind it, after an empty match one
\* character further.
RECURSIVE Matches(_, _, _)
Matches(s, i, alts) ==
    IF i > Len(s) + 1 THEN <<>>
    ELSE LET n == MatchLenAt(s, i, alts)
         IN  IF n < 0 THEN Matches(s, i + 1, alts)
             ELSE <<[pos |-> i, len |-> n]>>
                  \o Matches(s, IF n = 0 THEN i + 1 ELSE i + n, alts)

\* String.prototype.replace with a global regex: the text between the
\* matches is kept, reps[k] replaces match k.
RECURSIVE ReplaceMatches(_, _, _, _)
ReplaceMatches(s, from, ms, reps) ==
    IF ms = <<>> THEN SubSeq(s, from, Len(s))
    ELSE LET m == Head(ms)
         IN  SubSeq(s, from, m.pos - 1) \o Head(reps)
             \o ReplaceMatches(s, m.pos + m.len, Tail(ms), Tail(reps))

MatchText(s, m) == SubSeq(s, m.pos, m.pos + m.len - 1)

\* /\bimport\.meta/g
ImportMetaRegex == <<Compile(<<105, 109, 112, 111, 114, 116, 92, 46, 109, 101, 116, 97>>)>>

\* /\bprocess\.env/g
ProcessEnvRegex == <<Compile(<<112, 114, 111, 99, 101, 115, 115, 92, 46, 101, 110, 118>>)>>

\* 'import.<wbr/>meta'
ImportMetaReplacement ==
    <<105, 109, 112, 111, 114, 116, 46, 60, 119, 98, 114, 47, 62, 109, 101, 116, 97>>

\* 'process.<wbr/>env'
ProcessEnvReplacement ==
    <<112, 114, 111, 99, 101, 115, 115, 46, 60, 119, 98, 114, 47, 62, 101, 110, 118>>

\* The class of key.replace(/[-[\]/{}()*+?.\\^$|]/g, '\\$&')
EscapedChars == {45, 91, 93, 47, 123, 125, 40, 41, 42, 43, 63, 46, 92, 94, 36, 124}

\* A mutant of EscapeKey: the key goes into the pattern as it is.
EscapeKeyNot(key) == key

\* key.replace(/[-[\]/{}()*+?.\\^$|]/g, '\\$&')
EscapeKey(key) ==
    Concat([i \in 1..Len(key) |->
              IF key[i] \in EscapedChars THEN <<92, key[i]>> ELSE <<key[i]>>])

\* new RegExp(`\\b(${keys.map(escape).join('|')})`, 'g'): one alternative
\* per key, in the order of Object.keys; no key gives the empty group.
DefineRegex(keys) ==
    IF keys = <<>> THEN <<Compile(<<>>)>>
    ELSE [k \in 1..Len(keys) |-> Compile(EscapeKey(keys[k]))]

\* A mutant of DefineReplacement: the marker goes after the second character.
DefineReplacementAfterSecond(m) ==
    IF Len(m) < 2 THEN (IF m = <<>> THEN UndefinedText ELSE <<m[1]>>) \o Marker \o Slice(m, 1)
    ELSE SubSeq(m, 1, 2) \o Marker \o Slice(m, 2)

\* (_) => `${_[0]}<wbr/>${_.slice(1)}`
DefineReplacement(m) ==
    (IF m = <<>> THEN UndefinedText ELSE <<m[1]>>) \o Marker \o Slice(m, 1)

-----------------------------------------------------------------------------
(* resolveHeadersFromTokens                                                *)

RECURSIVE DigitsValue(_, _)
DigitsValue(s, acc) ==
    IF s # <<>> /\ IsDigit(Head(s))
    THEN DigitsValue(Tail(s), 10 * acc + (Head(s) - 48))
    ELSE acc

\* Number.parseInt(s, 10) on a string without sign and leading blanks: the
\* value of the leading digits, Null for NaN.
ParseInt(s) ==
    IF s # <<>> /\ IsDigit(Head(s)) THEN Some(DigitsValue(s, 0)) ELSE Null

\* Number.parseInt(token.tag.slice(1), 10)
HeaderLevel(tok) == ParseInt(Slice(tok.tag, 1))

\* A mutant of IncludesLevel: every level is extracted.
IncludesLevelAlways(levels, l) == TRUE

\* level.includes(headerLevel), level holding numbers other than NaN.
IncludesLevel(levels, l) == l # Null /\ l \subseteq levels

\* token.attrGet(name) of markdown-it: the value of the first attribute of
\* that name, or null.
attrGet(tok, name) ==
    LET attrs == Coalesce(tok.attrs, <<>>)
        hits == {j \in 1..Len(attrs) : attrs[j][1] = name}
    IN  IF hits = {} THEN Null
        ELSE Some(attrs[CHOOSE j \in hits : \A k \in hits : j <= k][2])

\* isFunction(format) ? format(title) : title.  The checked format puts
\* "x" in front of the title.
ApplyFormat(fmt, t) == IF fmt = "function" THEN <<120>> \o t ELSE t

\* A mutant of ResolveSlug: the id attribute is taken with || (an empty id
\* falls through to slugify).
ResolveSlugOr(id, t) ==
    IF id = Null \/ id = Some(<<>>) THEN slugify(t) ELSE CHOOSE v \in id : TRUE

\* token.attrGet('id') ?? slugify(title)
ResolveSlug(id, t) == Coalesce(id, slugify(t))

\* A mutant of PopWhile: shifts only strictly deeper entries (< for <=).
RECURSIVE PopWhileStrict(_, _, _)
PopWhileStrict(st, heap, l) ==
    IF st # <<>> /\ l < heap[Head(st)].level
    THEN PopWhileStrict(Tail(st), heap, l) ELSE st

\* while (stack.length !== 0 && header.level <= stack[0].level) stack.shift()
RECURSIVE PopWhile(_, _, _)
PopWhile(st, heap, l) ==
    IF st # <<>> /\ l <= heap[Head(st)].level
    THEN PopWhile(Tail(st), heap, l) ELSE st

\* A mutant of AddChild: the child is put in front of its siblings.
AddChildFirst(heap, parent, id) ==
    [heap EXCEPT ![parent].children = <<id>> \o @]

\* stack[0].children.push(header)
AddChild(heap, parent, id) ==
    [heap EXCEPT ![parent].children = Append(@, id)]

\* A mutant of Unshift: the header goes to the back of the stack.
UnshiftBack(st, id) == Append(st, id)

\* stack.unshift(header)
Unshift(st, id) == <<id>> \o st

\* The header object of the push call.
NewHeader(tok, next, html, escape, fmt) ==
    LET t == resolveTitleFromToken(next, html, escape)
    IN  [level |-> CHOOSE l \in HeaderLevel(tok) : TRUE,
         title |-> ApplyFormat(fmt, t),
         slug |-> ResolveSlug(attrGet(tok, "id"), t),
         children |-> <<>>]

-----------------------------------------------------------------------------
(* The checked inputs.                                                     *)

TextToken(content) == [type |-> "text", content |-> content, meta |-> Null]

\* An inline token with the parsed heading text as its children.
InlineToken(children) ==
    [type |-> "inline", tag |-> <<>>, attrs |-> Null, children |-> Some(children)]

\* <hN ...>
HeadingOpen(n, attrs) ==
    [type |-> "heading_open", tag |-> <<104, 48 + n>>, attrs |-> attrs,
     children |-> Null]

\* Children of a heading: text, emoji, inline code, inline HTML, the
\* permalink symbol of markdown-it-anchor, and a token type that is no title
\* token.
ChildKinds ==
    { TextToken(<<73, 110, 116, 114, 111, 32>>),                    \* "Intro "
      TextToken(<<32, 38>>),                                        \* " &"
      [type |-> "code_inline", content |-> <<60, 98, 62>>, meta |-> Null],
      [type |-> "html_inline", content |-> <<60, 105, 62, 120, 60, 47, 105, 62>>,
       meta |-> Null],
      [type |-> "emoji", content |-> <<60, 51>>,                    \* "<3"
       meta |-> Some([isPermalinkSymbol |-> FALSE])],
      [type |-> "text", content |-> <<35>>,                         \* "#"
       meta |-> Some([isPermalinkSymbol |-> TRUE])],
      [type |-> "softbreak", content |-> <<10>>, meta |-> Null] }

TokenKinds ==
    { HeadingOpen(1, Null),
      HeadingOpen(2, Null),
      HeadingOpen(4, Some(<<>>)),
      HeadingOpen(2, Some(<< <<"class", <<97>> >>, <<"id", <<99, 117, 115, 116, 111, 109>> >> >>)),
      HeadingOpen(4, Some(<< <<"id", <<>> >> >>)),
      InlineToken(<< TextToken(<<49, 32, 38>>),                     \* "1 &"
                     [type |-> "html_inline", content |-> <<60, 98, 62>>,
                      meta |-> Null] >>) }

LevelSets == { {1, 2, 4}, {2, 4}, {1, 2}, {4} }

HeaderOptions ==
    { [allowHtml |-> TRUE, escapeText |-> TRUE, format |-> "function"],
      [allowHtml |-> FALSE, escapeText |-> FALSE, format |-> "undefined"],
      [allowHtml |-> TRUE, escapeText |-> FALSE, format |-> "function"] }

\* "Cafe<acute> <em dash> De<acute>ja<grave> Vu" with precomposed letters.
CafeDejaVu == <<67, 97, 102, 233, 32, 8212, 32, 68, 233, 106, 224, 32, 86, 117>>

\* "Hello, World!" and "123 Start"
SlugExamples ==
    { CafeDejaVu,
      <<72, 101, 108, 108, 111, 44, 32, 87, 111, 114, 108, 100, 33>>,
      <<49, 50, 51, 32, 83, 116, 97, 114, 116>> }

\* C, e-acute, space, em dash, hyphen, 1, combining acute, tab.
SlugAlphabet == {67, 233, 32, 8212, 45, 49, 769, 9}

\* "import.meta", "process.env", "FOO", "BAR", " ", "a.b", "axb"
Fragments ==
    { <<105, 109, 112, 111, 114, 116, 46, 109, 101, 116, 97>>,
      <<112, 114, 111, 99, 101, 115, 115, 46, 101, 110, 118>>,
      <<70, 79, 79>>,
      <<66, 65, 82>>,
      <<32>>,
      <<97, 46, 98>>,
      <<97, 120, 98>> }

\* undefined, {}, {FOO}, {"a.b"}, {wbr}, {BAR, FOO}
Defines ==
    { Null,
      Some(<<>>),
      Some(<< <<70, 79, 79>> >>),
      Some(<< <<97, 46, 98>> >>),
      Some(<< <<119, 98, 114>> >>),
      Some(<< <<66, 65, 82>>, <<70, 79, 79>> >>) }

-----------------------------------------------------------------------------
(* Initial states: one function call each, its arguments drawn from the    *)
(* checked inputs.                                                         *)

NoToken == InlineToken(<<>>)

SlugIdle == str = <<>> /\ slug = <<>>
TitleIdle == token = NoToken /\ title = <<>>
OptIdle == allowHtml = FALSE /\ escapeText = FALSE
GuardIdle ==
    source = <<>> /\ define = Null /\ cur = <<>> /\ prev = <<>> /\ matched = <<>>
HeaderIdle ==
    /\ tokens = <<>> /\ level = {} /\ format = "undefined" /\ idx = 1
    /\ nodes = <<>> /\ headers = <<>> /\ stack = <<>>

InitSlug ==
    /\ pc = "normalize"
    /\ str \in SlugExamples \cup SeqsUpTo(SlugAlphabet, MaxSlugLen)
    /\ slug = str
    /\ TitleIdle /\ OptIdle /\ GuardIdle /\ HeaderIdle

InitTitle ==
    /\ pc = "title"
    /\ token \in {InlineToken(cs) : cs \in SeqsUpTo(ChildKinds, MaxChildren)}
                 \cup {HeadingOpen(1, Null)}
    /\ title = <<>>
    /\ allowHtml \in BOOLEAN
    /\ escapeText \in BOOLEAN
    /\ SlugIdle /\ GuardIdle /\ HeaderIdle

InitGuard ==
    /\ pc = "import"
    /\ source \in {Concat(fs) : fs \in SeqsUpTo(Fragments, MaxFrags)}
    /\ define \in Defines
    /\ cur = source
    /\ prev = source
    /\ matched = <<>>
    /\ SlugIdle /\ TitleIdle /\ OptIdle /\ HeaderIdle

InitHeaders ==
    /\ pc = "forEach"
    /\ tokens \in SeqsUpTo(TokenKinds, MaxTokens)
    /\ level \in LevelSets
    /\ \E o \in HeaderOptions :
          /\ allowHtml = o.allowHtml
          /\ escapeText = o.escapeText
          /\ format = o.format
    /\ idx = 1
    /\ nodes = <<>>
    /\ headers = <<>>
    /\ stack = <<>>
    /\ SlugIdle /\ TitleIdle /\ GuardIdle

-----------------------------------------------------------------------------
(* slugify, one step of the chain at a time.                               *)

SlugStep(from, to, result) ==
    /\ pc = from
    /\ slug' = result
    /\ pc' = to
    /\ UNCHANGED <<str, titleVars, optVars, guardVars, headerVars>>

SlugNormalize == SlugStep("normalize", "accents", Normalize(slug))
SlugRemoveAccents == SlugStep("accents", "control", RemoveAccents(slug))
SlugRemoveControl == SlugStep("control", "special", RemoveControl(slug))
SlugReplaceSpecial == SlugStep("special", "continuous", ReplaceSpecial(slug))
SlugRemoveContinuous == SlugStep("continuous", "edges", RemoveContinuous(slug))
SlugRemoveEdgeSeparators == SlugStep("edges", "number", RemoveEdgeSeparators(slug))
SlugPrefixNumber == SlugStep("number", "lowercase", PrefixNumber(slug))
SlugToLowerCase == SlugStep("lowercase", "slugified", ToLowerCase(slug))

NextSlug ==
    \/ SlugNormalize
    \/ SlugRemoveAccents
    \/ SlugRemoveControl
    \/ SlugReplaceSpecial
    \/ SlugRemoveContinuous
    \/ SlugRemoveEdgeSeparators
    \/ SlugPrefixNumber
    \/ SlugToLowerCase

SpecSlug == InitSlug /\ [][NextSlug]_vars

-----------------------------------------------------------------------------
(* resolveTitleFromToken, one call.                                        *)

ResolveTitle ==
    /\ pc = "title"
    /\ title' = resolveTitleFromToken(token, allowHtml, escapeText)
    /\ pc' = "titled"
    /\ UNCHANGED <<token, slugVars, optVars, guardVars, headerVars>>

NextTitle == ResolveTitle

SpecTitle == InitTitle /\ [][NextTitle]_vars

-----------------------------------------------------------------------------
(* preventViteConstantsReplacement, one replace at a time.                 *)

GuardStep(from, to, ms, reps) ==
    /\ pc = from
    /\ prev' = cur
    /\ matched' = ms
    /\ cur' = ReplaceMatches(cur, 1, ms, reps)
    /\ pc' = to
    /\ UNCHANGED <<source, define, slugVars, titleVars, optVars, headerVars>>

\* .replace(/\bimport\.meta/g, 'import.<wbr/>meta')
ReplaceImportMeta ==
    LET ms == Matches(cur, 1, ImportMetaRegex)
    IN  GuardStep("import", "process", ms, [k \in 1..Len(ms) |-> ImportMetaReplacement])

\* .replace(/\bprocess\.env/g, 'process.<wbr/>env')
ReplaceProcessEnv ==
    LET ms == Matches(cur, 1, ProcessEnvRegex)
    IN  GuardStep("process", "define", ms, [k \in 1..Len(ms) |-> ProcessEnvReplacement])

\* if (define) { source = source.replace(regex, callback) }
ReplaceDefines ==
    LET ms == Matches(cur, 1, DefineRegex(Coalesce(define, <<>>)))
    IN  /\ define # Null
        /\ GuardStep("define", "guarded", ms,
                     [k \in 1..Len(ms) |-> DefineReplacement(MatchText(cur, ms[k]))])

NoDefines ==
    /\ pc = "define"
    /\ define = Null
    /\ pc' = "guarded"
    /\ prev' = cur
    /\ matched' = <<>>
    /\ UNCHANGED <<source, define, cur, slugVars, titleVars, optVars, headerVars>>

NextGuard ==
    \/ ReplaceImportMeta
    \/ ReplaceProcessEnv
    \/ ReplaceDefines
    \/ NoDefines

SpecGuard == InitGuard /\ [][NextGuard]_vars

-----------------------------------------------------------------------------
(* resolveHeadersFromTokens, one forEach callback at a time.               *)

InLoop == pc = "forEach" /\ idx <= Len(tokens)

IsHeadingOpen(tok) == tok.type = "heading_open"

\* tokens[idx + 1] exists
HasNext(i) == i + 1 <= Len(tokens)

Skip ==
    /\ idx' = idx + 1
    /\ UNCHANGED <<pc, tokens, level, format, nodes, headers, stack,
                   slugVars, titleVars, optVars, guardVars>>

\* if (token?.type !== 'heading_open') return
SkipOtherToken ==
    /\ InLoop
    /\ ~IsHeadingOpen(tokens[idx])
    /\ Skip

\* if (!level.includes(headerLevel)) return
SkipLevel ==
    /\ InLoop
    /\ IsHeadingOpen(tokens[idx])
    /\ ~IncludesLevel(level, HeaderLevel(tokens[idx]))
    /\ Skip

\* if (!nextToken) return
SkipNoNextToken ==
    /\ InLoop
    /\ IsHeadingOpen(tokens[idx])
    /\ IncludesLevel(level, HeaderLevel(tokens[idx]))
    /\ ~HasNext(idx)
    /\ Skip

Captures ==
    /\ InLoop
    /\ IsHeadingOpen(tokens[idx])
    /\ IncludesLevel(level, HeaderLevel(tokens[idx]))
    /\ HasNext(idx)

\* push(header) with the stack empty after the shifts.
PushTopLevel ==
    LET header == NewHeader(tokens[idx], tokens[idx + 1], allowHtml, escapeText, format)
        id == Len(nodes) + 1
        open == PopWhile(stack, nodes, header.level)
    IN  /\ Captures
        /\ open = <<>>
        /\ nodes' = Append(nodes, header)
        /\ headers' = Append(headers, id)
        /\ stack' = Append(open, id)
        /\ idx' = idx + 1
        /\ UNCHANGED <<pc, tokens, level, format, slugVars, titleVars, optVars, guardVars>>

\* push(header) with an open header left on the stack.
PushChild ==
    LET header == NewHeader(tokens[idx], tokens[idx + 1], allowHtml, escapeText, format)
        id == Len(nodes) + 1
        open == PopWhile(stack, nodes, header.level)
    IN  /\ Captures
        /\ open # <<>>
        /\ nodes' = AddChild(Append(nodes, header), Head(open), id)
        /\ stack' = Unshift(open, id)
        /\ idx' = idx + 1
        /\ UNCHANGED <<pc, tokens, level, format, headers, slugVars, titleVars,
                       optVars, guardVars>>

\* return headers
Return ==
    /\ pc = "forEach"
    /\ idx > Len(tokens)
    /\ pc' = "returned"
    /\ UNCHANGED <<headerVars, slugVars, titleVars, optVars, guardVars>>

NextHeaders ==
    \/ SkipOtherToken
    \/ SkipLevel
    \/ SkipNoNextToken
    \/ PushTopLevel
    \/ PushChild
    \/ Return

SpecHeaders == InitHeaders /\ [][NextHeaders]_vars

-----------------------------------------------------------------------------
(* What the properties speak of.                                           *)

\* The heading level written in the tag "hN".
TagLevel(tok) == tok.tag[2] - 48

\* The heading_open tokens a header is to be emitted for: level requested,
\* and a token after it.
IsCaptured(i) ==
    /\ tokens[i].type = "heading_open"
    /\ TagLevel(tokens[i]) \in level
    /\ i < Len(tokens)

\* The indices of the captured tokens already visited, in document order.
CapturedSeq == SelectSeq([i \in 1..(idx - 1) |-> i], IsCaptured)

Parents(heap, n) ==
    {p \in 1..Len(heap) : \E j \in 1..Len(heap[p].children) : heap[p].children[j] = n}

\* The number of ancestors of node n.
RECURSIVE Depth(_, _)
Depth(heap, n) ==
    IF Parents(heap, n) = {} THEN 0
    ELSE 1 + Depth(heap, CHOOSE p \in Parents(heap, n) : TRUE)

RECURSIVE Preorder(_, _)
Preorder(heap, ids) ==
    IF ids = <<>> THEN <<>>
    ELSE <<Head(ids)>> \o Preorder(heap, heap[Head(ids)].children)
                       \o Preorder(heap, Tail(ids))

Min(S) == CHOOSE x \in S : \A y \in S : x <= y

\* s with the marker inserted off characters into each match.
RECURSIVE MarkAfter(_, _, _, _)
MarkAfter(s, from, ms, off) ==
    IF ms = <<>> THEN SubSeq(s, from, Len(s))
    ELSE SubSeq(s, from, Head(ms).pos + off - 1) \o Marker
         \o MarkAfter(s, Head(ms).pos + off, Tail(ms), off)

\* The occurrences of the text t in s that start at a word boundary.
OccurrencesAtBoundary(s, t) ==
    LET at(i) == WordBoundary(s, i) /\ OccursAt(s, i, t)
    IN  [k \in 1..Len(SelectSeq([i \in 1..Len(s) |-> i], at)) |->
            [pos |-> SelectSeq([i \in 1..Len(s) |-> i], at)[k], len |-> Len(t)]]

\* s with every occurrence of the marker deleted.
RECURSIVE StripMarkers(_)
StripMarkers(s) ==
    IF s = <<>> THEN <<>>
    ELSE IF OccursAt(s, 1, Marker) THEN StripMarkers(SubSeq(s, Len(Marker) + 1, Len(s)))
    ELSE <<Head(s)>> \o StripMarkers(Tail(s))

\* The title the children give according to the description of the title
\* extractor: which children count, and which of them are escaped.
RECURSIVE DescribedTitle(_, _, _)
DescribedTitle(children, html, escape) ==
    IF children = <<>> THEN <<>>
    ELSE LET c == Head(children)
             flagged == \E m \in c.meta : m.isPermalinkSymbol
             counted == /\ \/ c.type \in {"text", "emoji", "code_inline"}
                           \/ (c.type = "html_inline" /\ html)
                        /\ ~flagged
             escaped == escape /\ c.type \in {"text", "code_inline"}
             part == IF ~counted THEN <<>>
                     ELSE IF escaped THEN htmlEscape(c.content)
                     ELSE c.content
         IN  part \o DescribedTitle(Tail(children), html, escape)

-----------------------------------------------------------------------------
(* Properties of resolveHeadersFromTokens.                                 *)

\* C1: a heading is inserted at a depth equal to the number of headers on
\* the stack, as it is before the insertion, whose level is strictly
\* shallower; its parent is the nearest of them (the top level if there is
\* none), and exactly one node is created, none for an absent level.
C1_NestingDepth ==
    [][Len(nodes') > Len(nodes) =>
         LET id == Len(nodes')
             shallower == {k \in 1..Len(stack) :
                             nodes[stack[k]].level < nodes'[id].level}
         IN  /\ Len(nodes') = Len(nodes) + 1
             /\ Depth(nodes', id) = Cardinality(shallower)
             /\ shallower = {} => headers' = Append(headers, id)
             /\ shallower # {} =>
                  /\ Parents(nodes', id) = {stack[Min(shallower)]}
                  /\ headers' = headers]_vars

\* C1 witness: a level-4 heading sits directly under a level-2 header that
\* is itself nested, at depth 2.
C1_Witness ==
    \E n \in 1..Len(nodes) :
        /\ nodes[n].level = 4
        /\ Depth(nodes, n) = 2
        /\ \E p \in Parents(nodes, n) : nodes[p].level = 2

\* C2: the pre-order traversal of the result lists every captured heading
\* exactly once in the order of the heading_open tokens; two level-2
\* headings after one level-1 heading are both its children, in order.
C2_DocumentOrder ==
    /\ Preorder(nodes, headers) = [k \in 1..Len(nodes) |-> k]
    /\ Len(nodes) = Len(CapturedSeq)
    /\ \A k \in 1..Len(nodes) : nodes[k].level = TagLevel(tokens[CapturedSeq[k]])
    /\ [k \in 1..Len(nodes) |-> nodes[k].level] = <<1, 2, 2>> =>
          headers = <<1>> /\ nodes[1].children = <<2, 3>>

\* C2 witness: a level-1 header with two level-2 children has been returned.
C2_Witness ==
    /\ pc = "returned"
    /\ [k \in 1..Len(nodes) |-> nodes[k].level] = <<1, 2, 2>>
    /\ nodes[1].children = <<2, 3>>

\* A visited heading_open that is not captured.
SkippedAt(i) == tokens[i].type = "heading_open" /\ ~IsCaptured(i)

\* C3: a heading_open whose level is not requested or that is the last
\* token leaves the result and the stack as they are, and no header is
\* emitted for it; every header has a requested level.
C3_SkippedHeadings ==
    /\ [](/\ \A n \in 1..Len(nodes) : nodes[n].level \in level
          /\ Len(nodes) = Len(CapturedSeq))
    /\ [][(idx' = idx + 1 /\ SkippedAt(idx)) =>
            UNCHANGED <<nodes, headers, stack>>]_vars

\* C3 witness: the walk is over, a header was emitted, one heading was
\* skipped for its level and one for being the last token.
C3_Witness ==
    /\ pc = "returned"
    /\ nodes # <<>>
    /\ \E i \in 1..Len(tokens) : SkippedAt(i) /\ TagLevel(tokens[i]) \notin level
    /\ SkippedAt(Len(tokens)) /\ TagLevel(tokens[Len(tokens)]) \in level

\* The values of the id attributes of a token.
IdValues(tok) ==
    LET attrs == IF tok.attrs = Null THEN <<>> ELSE CHOOSE a \in tok.attrs : TRUE
    IN  SelectSeq(attrs, LAMBDA a : a[1] = "id")

\* C4: the slug is the id attribute verbatim if there is one (also an empty
\* one), and otherwise slugify of the title as extracted, before format.
C4_Slug ==
    \A k \in 1..Len(nodes) :
        k <= Len(CapturedSeq) =>
            LET i == CapturedSeq[k]
                ids == IdValues(tokens[i])
                extracted == resolveTitleFromToken(tokens[i + 1], allowHtml, escapeText)
            IN  /\ ids # <<>> => nodes[k].slug = ids[1][2]
                /\ ids = <<>> => nodes[k].slug = slugify(extracted)
                /\ nodes[k].title =
                      IF format = "function" THEN <<120>> \o extracted ELSE extracted

\* C4 witness: a header with a title took its slug "custom" from the id
\* attribute, and a header without id, its title formatted, has a slug that
\* is not the slug of the formatted title.
C4_Witness ==
    /\ format = "function"
    /\ \E k \in 1..Len(nodes) :
          /\ nodes[k].slug = <<99, 117, 115, 116, 111, 109>>
          /\ Len(nodes[k].title) > 1
    /\ \E k \in 1..Len(nodes) :
          /\ k <= Len(CapturedSeq)
          /\ IdValues(tokens[CapturedSeq[k]]) = <<>>
          /\ nodes[k].slug # slugify(nodes[k].title)

\* C10: once a header is inserted the stack is the path from the header
\* inserted last up to a top-level header: innermost first, each entry a
\* child of the next, levels strictly decreasing towards the back; every
\* child has a greater level than its parent.
C10_StackIsAncestorPath ==
    /\ nodes # <<>> =>
          /\ stack # <<>>
          /\ stack[1] = Len(nodes)
          /\ \E j \in 1..Len(headers) : headers[j] = stack[Len(stack)]
          /\ \A i \in 1..(Len(stack) - 1) :
                /\ stack[i + 1] \in Parents(nodes, stack[i])
                /\ nodes[stack[i]].level > nodes[stack[i + 1]].level
    /\ \A n \in 1..Len(nodes) :
          \A p \in Parents(nodes, n) : nodes[p].level < nodes[n].level

\* C10 witness: after a sibling closed an open header, the stack holds the
\* third header and its parent.
C10_Witness ==
    /\ Len(nodes) = 3
    /\ stack = <<3, 1>>
    /\ nodes[1].children = <<2, 3>>

-----------------------------------------------------------------------------
(* Properties of slugify.                                                  *)

\* C5 as claimed: slugify of CafeDejaVu is "cafe-deja-vu".
C5_Original ==
    (pc = "slugified" /\ str = CafeDejaVu) =>
        slug = <<99, 97, 102, 101, 45, 100, 101, 106, 97, 45, 118, 117>>

\* C5 as amended: the em dash is no special character and stays, each of
\* the blanks around it becomes a hyphen: the slug is "cafe-", U+2014,
\* "-deja-vu".
C5_CafeDejaVu ==
    (pc = "slugified" /\ str = CafeDejaVu) =>
        slug = <<99, 97, 102, 101, 45, 8212, 45, 100, 101, 106, 97, 45, 118, 117>>

\* C5 witness: slugify has returned for CafeDejaVu.
C5_Witness == pc = "slugified" /\ str = CafeDejaVu /\ Len(slug) = 14

-----------------------------------------------------------------------------
(* Properties of resolveTitleFromToken.                                    *)

TitleChildren == IF token.children = Null THEN <<>> ELSE CHOOSE c \in token.children : TRUE

\* [text:"Intro ", code_inline:"<b>", html_inline:"<i>x</i>"]
IntroExample ==
    << TextToken(<<73, 110, 116, 114, 111, 32>>),
       [type |-> "code_inline", content |-> <<60, 98, 62>>, meta |-> Null],
       [type |-> "html_inline", content |-> <<60, 105, 62, 120, 60, 47, 105, 62>>,
        meta |-> Null] >>

\* C6: the title is the trimmed concatenation, in order, of the counted
\* children, text and inline code escaped exactly with escapeText; the
\* example gives "Intro &lt;b&gt;<i>x</i>".
C6_Title ==
    pc = "titled" =>
        /\ title = Trim(DescribedTitle(TitleChildren, allowHtml, escapeText))
        /\ (TitleChildren = IntroExample /\ allowHtml /\ escapeText) =>
              title = <<73, 110, 116, 114, 111, 32, 38, 108, 116, 59, 98, 38, 103,
                        116, 59, 60, 105, 62, 120, 60, 47, 105, 62>>

\* C6 witness: the example has been extracted with both options set.
C6_Witness ==
    /\ pc = "titled"
    /\ TitleChildren = IntroExample
    /\ allowHtml /\ escapeText
    /\ Len(title) = 23

-----------------------------------------------------------------------------
(* Properties of preventViteConstantsReplacement.                          *)

DefineKeys == IF define = Null THEN <<>> ELSE CHOOSE k \in define : TRUE

\* "import.meta" and "process.env"
ImportMeta == <<105, 109, 112, 111, 114, 116, 46, 109, 101, 116, 97>>
ProcessEnv == <<112, 114, 111, 99, 101, 115, 115, 46, 101, 110, 118>>

AllMatchesNonEmpty == \A k \in 1..Len(matched) : matched[k].len > 0

\* C7 as claimed: every replace puts the marker after the first character
\* of each occurrence it matched.
C7_Original ==
    (pc \in {"process", "define", "guarded"} /\ AllMatchesNonEmpty) =>
        cur = MarkAfter(prev, 1, matched, 1)

\* C7 as amended: in import.meta and process.env the marker follows the
\* dot; in a matched occurrence of a reserved-name key it follows the first
\* character.
C7_MarkerPosition ==
    /\ pc = "process" =>
          /\ matched = OccurrencesAtBoundary(prev, ImportMeta)
          /\ cur = MarkAfter(prev, 1, matched, 7)
    /\ pc = "define" =>
          /\ matched = OccurrencesAtBoundary(prev, ProcessEnv)
          /\ cur = MarkAfter(prev, 1, matched, 8)
    /\ (pc = "guarded" /\ define # Null /\ AllMatchesNonEmpty) =>
          cur = MarkAfter(prev, 1, matched, 1)

\* C7 witness: "import.meta FOO" with the key FOO became
\* "import.<wbr/>meta F<wbr/>OO".
C7_Witness ==
    /\ pc = "guarded"
    /\ source = ImportMeta \o <<32, 70, 79, 79>>
    /\ cur = ImportMetaReplacement \o <<32, 70>> \o Marker \o <<79, 79>>

\* C8: deleting every marker from the output gives the source.
C8_OnlyInsertsMarkers ==
    pc = "guarded" => StripMarkers(cur) = source

\* The alternatives of the keys as texts: the empty text if there is no key.
KeyTexts == IF DefineKeys = <<>> THEN {<<>>} ELSE {DefineKeys[k] : k \in 1..Len(DefineKeys)}

\* C9 as claimed: a key is replaced only where it is a whole word.
C9_Original ==
    (pc = "guarded" /\ define # Null) =>
        \A k \in 1..Len(matched) :
            /\ WordBoundary(prev, matched[k].pos)
            /\ WordBoundary(prev, matched[k].pos + matched[k].len)

\* C9 as amended: a key is replaced exactly where an occurrence of its
\* literal text starts at a word boundary (and lies behind the previous
\* match), whatever follows it: FOO in FOOBAR is replaced, FOO in BARFOO is
\* not, and the key a.b does not match axb.
C9_LeadingBoundaryLiteral ==
    (pc = "guarded" /\ define # Null) =>
        /\ \A k \in 1..Len(matched) :
              /\ WordBoundary(prev, matched[k].pos)
              /\ \E t \in KeyTexts :
                    Len(t) = matched[k].len /\ OccursAt(prev, matched[k].pos, t)
        /\ \A i \in 1..(Len(prev) + 1) :
              (WordBoundary(prev, i) /\ \E t \in KeyTexts : OccursAt(prev, i, t)) =>
                  \E k \in 1..Len(matched) :
                      \/ matched[k].pos = i
                      \/ matched[k].pos < i /\ i < matched[k].pos + matched[k].len
        /\ (source = <<70, 79, 79, 66, 65, 82>> /\ DefineKeys = << <<70, 79, 79>> >>) =>
              cur = <<70>> \o Marker \o <<79, 79, 66, 65, 82>>
        /\ (source = <<66, 65, 82, 70, 79, 79>> /\ DefineKeys = << <<70, 79, 79>> >>) =>
              cur = source
        /\ (source = <<97, 120, 98>> /\ DefineKeys = << <<97, 46, 98>> >>) =>
              cur = source

\* C9 witness: FOOBAR with the key FOO became F<wbr/>OOBAR.
C9_Witness ==
    /\ pc = "guarded"
    /\ DefineKeys = << <<70, 79, 79>> >>
    /\ source = <<70, 79, 79, 66, 65, 82>>
    /\ cur = <<70>> \o Marker \o <<79, 79, 66, 65, 82>>

=============================================================================
